---- MODULE Spec2Model ----
(***************************************************************************)
(* Model of src/sanskrit_metre_app.py: the IAST syllabifier, the guru /    *)
(* laghu classifier, the pada segmenter and the anuprasa / yamaka          *)
(* detectors, driven by the script's main block.                           *)
(*                                                                         *)
(* A Python string is modelled as a sequence of codepoints; a codepoint is *)
(* written as an ASCII token:                                              *)
(*   a i u e o          the short vowels and e, o                          *)
(*   aa ii uu R RR      a-macron, i-macron, u-macron, r-underdot,          *)
(*                      r-underdot-macron                                  *)
(*   M H                anusvara (m-underdot), visarga (h-underdot)        *)
(*   G J T D N z S      n-overdot, n-tilde, t-underdot, d-underdot,        *)
(*                      n-underdot, s-acute, s-underdot                    *)
(*   k g c j t d n p b m y r l v s h   themselves                          *)
(*   " "  "1"  "|"  "||"  space, a digit, danda, double danda              *)
(*   "-"                U+0304 COMBINING MACRON                            *)
(*   ee oo gg yy        e-macron, o-macron, g-macron, y-macron: what NFC   *)
(*                      composes from e, o, g, y and U+0304; they are in   *)
(*                      none of the classes of the regular expressions     *)
(***************************************************************************)
EXTENDS Integers, Sequences, FiniteSets, TLC

VARIABLES text, pc, txt, sylls, anups, yams, metre, gurus

vars == <<text, pc, txt, sylls, anups, yams, metre, gurus>>

----------------------------------------------------------------------------
(* Character classes of the regular expressions.                           *)

\* [aeiouaaiiuuRRReoau] : the vowel class of lines 59, 96, 100, 168
VowelChars == {"a", "e", "i", "o", "u", "aa", "ii", "uu", "R", "RR"}

\* (?:M|H) : line 59
MarkerChars == {"M", "H"}

\* [kgGcjJTDNtdnpbmyrlvzSsh] : the optional coda consonant of line 59
CodaChars == {"k", "g", "G", "c", "j", "J", "T", "D", "N", "t", "d", "n",
              "p", "b", "m", "y", "r", "l", "v", "z", "S", "s", "h"}

\* [aaiiuuRRReoau] : line 66
GuruChars == {"aa", "ii", "uu", "R", "RR", "e", "o", "a", "u"}

\* [aeiou] : line 70
ShortChars == {"a", "e", "i", "o", "u"}

\* \s
SpaceChars == {" "}

\* [| || \d] : line 53, "1" standing for the digits
PunctChars == {"|", "||", "1"}

\* pada length and number of padas of get_padas
PadaLen == 8
NumPadas == 4
\* the half verse of detect_vrtty / samudga_yamaka and the block of
\* detect_antya_sloka / samudga_yamaka
HalfLen == 16
SlokaLen == 32
\* the 8 x 8 grid of the main block
GridSide == 8

----------------------------------------------------------------------------
(* Python sequence helpers.                                                *)

Min(a, b) == IF a < b THEN a ELSE b
Max(a, b) == IF a > b THEN a ELSE b

\* s[lo:hi] with 0 <= lo <= hi
Slice(s, lo, hi) == SubSeq(s, lo + 1, Min(hi, Len(s)))

\* s[-k:] with k > 0
Tail_(s, k) == SubSeq(s, Max(1, Len(s) - k + 1), Len(s))

Range(s) == {s[i] : i \in 1..Len(s)}

RemoveAll(s, S) == SelectSeq(s, LAMBDA c : c \notin S)

RECURSIVE Concat(_)
Concat(ss) == IF ss = <<>> THEN <<>> ELSE Head(ss) \o Concat(Tail(ss))

\* first index >= i whose codepoint is a vowel, Len(t)+1 if none
RECURSIVE SkipNonVowels(_, _)
SkipNonVowels(t, i) ==
    IF i <= Len(t) /\ t[i] \notin VowelChars THEN SkipNonVowels(t, i + 1) ELSE i

\* first index >= i whose codepoint is not a vowel, Len(t)+1 if none
RECURSIVE SkipVowels(_, _)
SkipVowels(t, i) ==
    IF i <= Len(t) /\ t[i] \in VowelChars THEN SkipVowels(t, i + 1) ELSE i

----------------------------------------------------------------------------
(* normalize_iast                                                          *)

\* str.strip()
RECURSIVE strip(_)
strip(t) ==
    IF t = <<>> THEN t
    ELSE IF Head(t) \in SpaceChars THEN strip(Tail(t))
    ELSE IF t[Len(t)] \in SpaceChars THEN strip(SubSeq(t, 1, Len(t) - 1))
    ELSE t

\* Canonical composition with U+0304 of the codepoints of the alphabet,
\* "" for a codepoint that has none
ComposeMacron(c) ==
    CASE c = "a" -> "aa"
      [] c = "i" -> "ii"
      [] c = "u" -> "uu"
      [] c = "R" -> "RR"
      [] c = "e" -> "ee"
      [] c = "o" -> "oo"
      [] c = "g" -> "gg"
      [] c = "y" -> "yy"
      [] OTHER   -> ""

\* unicodedata.normalize('NFC', .) : every codepoint of the alphabet is
\* already composed, except a base followed by the combining macron
RECURSIVE NFC(_)
NFC(t) ==
    IF Len(t) < 2 THEN t
    ELSE IF t[2] = "-" /\ ComposeMacron(t[1]) # ""
         THEN NFC(<<ComposeMacron(t[1])>> \o SubSeq(t, 3, Len(t)))
         ELSE <<t[1]>> \o NFC(Tail(t))

normalize_iast(t) == NFC(strip(RemoveAll(t, PunctChars)))

----------------------------------------------------------------------------
(* split_syllables                                                         *)

\* One match of the pattern of line 59 attempted at index i: the index
\* after the match, 0 if the pattern does not match at i.
\*   [^V]*  all non-vowels from i      [V]+  the whole vowel run
\*   (M|H)? one marker if present      ([C](?!h))? one consonant if it is
\*                                     not followed by h
MatchEnd(t, i) ==
    LET v == SkipNonVowels(t, i)
        n == SkipVowels(t, v)
        m == IF n <= Len(t) /\ t[n] \in MarkerChars THEN n + 1 ELSE n
        c == IF /\ m <= Len(t)
                /\ t[m] \in CodaChars
                /\ ~(m + 1 <= Len(t) /\ t[m + 1] = "h")
             THEN m + 1 ELSE m
    IN  IF v > Len(t) THEN 0 ELSE c

\* re.findall(pattern, t) scanning from index i
RECURSIVE findall(_, _)
findall(t, i) ==
    LET e == MatchEnd(t, i)
    IN  IF e = 0 THEN <<>> ELSE <<SubSeq(t, i, e - 1)>> \o findall(t, e)

split_syllables(t) == findall(RemoveAll(t, SpaceChars), 1)

----------------------------------------------------------------------------
(* is_guru, get_padas, identify_vipula, classify_anushtubh                 *)

is_guru(syl) ==
    IF syl = <<>> THEN FALSE
    ELSE IF \E i \in 1..Len(syl) : syl[i] \in GuruChars THEN TRUE
    ELSE IF \E i \in 1..Len(syl) : syl[i] \in MarkerChars THEN TRUE
    ELSE IF \E i \in 1..Len(syl) :
               /\ syl[i] \in ShortChars
               /\ i + 2 <= Len(syl)
               /\ syl[i + 1] \notin ShortChars
               /\ syl[i + 2] \notin ShortChars
         THEN TRUE
    ELSE FALSE

get_padas(s) ==
    LET all == [i \in 1..NumPadas |-> Slice(s, (i - 1) * PadaLen, i * PadaLen)]
    IN  SelectSeq(all, LAMBDA p : Len(p) = PadaLen)

identify_vipula(half) ==
    LET first == Slice(half, 0, 4)
        pattern == [i \in 1..Len(first) |-> IF is_guru(first[i]) THEN "g" ELSE "l"]
    IN  CASE pattern = <<"l", "g", "l", "g">> -> "Nagari"
          [] pattern = <<"l", "l", "l", "g">> -> "Bhavani"
          [] pattern = <<"l", "l", "g", "g">> -> "Sardula"
          [] pattern = <<"g", "l", "g", "g">> -> "Arya"
          [] pattern = <<"g", "g", "l", "g">> -> "Vidyunmala"
          [] OTHER -> ""

classify_anushtubh(s) ==
    LET pads == get_padas(s)
    IN  IF Len(pads) = 4
        THEN LET p3 == pads[3]
                 p4 == pads[4]
             IN  IF /\ ~is_guru(p3[5])
                    /\ is_guru(p3[6])
                    /\ is_guru(p4[5])
                    /\ is_guru(p4[6])
                 THEN "Pathya-anustubh" ELSE ""
        ELSE ""

----------------------------------------------------------------------------
(* get_initial, get_final                                                  *)

\* re.match('[^V]+', syl): the maximal non-vowel prefix
get_initial(syl) == SubSeq(syl, 1, SkipNonVowels(syl, 1) - 1)

\* start of the maximal non-vowel suffix
RECURSIVE SuffixStart(_, _)
SuffixStart(syl, i) ==
    IF i >= 1 /\ syl[i] \notin VowelChars THEN SuffixStart(syl, i - 1) ELSE i + 1

\* re.search('[^V]+$', syl): the maximal non-vowel suffix
get_final(syl) == SubSeq(syl, SuffixStart(syl, Len(syl)), Len(syl))

----------------------------------------------------------------------------
(* Anuprasa detectors                                                      *)

detect_lata(s) ==
    LET pads == get_padas(s)
    IN  /\ \E k \in 1..Len(pads) : pads[k] # <<>>
        /\ \A i \in 1..Len(pads[1]) :
               get_initial(pads[1][i]) = get_initial(pads[1][1])

detect_cheka(s) ==
    LET pads == get_padas(s)
        inits == [k \in 1..Len(pads) |-> get_initial(pads[k][1])]
    IN  /\ Cardinality(Range(inits)) = 1
        /\ inits[1] # <<>>

detect_vrtty(s) ==
    LET half == Slice(s, 0, HalfLen)
        cnt(init) == Cardinality({i \in 1..Len(half) : get_initial(half[i]) = init})
    IN  \E i \in 1..Len(half) :
            cnt(get_initial(half[i])) >= 3 /\ get_initial(half[i]) # <<>>

detect_antya_pada(s) ==
    LET pads == get_padas(s)
    IN  \E k \in 1..Len(pads) :
            Cardinality({get_final(pads[k][i]) : i \in 1..Len(pads[k])}) = 1

detect_antya_sloka(s) ==
    LET block == Slice(s, 0, SlokaLen)
        fins == [i \in 1..Len(block) |-> get_final(block[i])]
    IN  /\ Len(fins) = 32
        /\ Cardinality(Range(fins)) = 1
        /\ fins[1] # <<>>

detect_srtya_dantya(s) ==
    LET pads == get_padas(s)
    IN  IF Len(pads) >= 2
        THEN /\ get_final(pads[1][Len(pads[1])]) = get_initial(pads[2][1])
             /\ get_initial(pads[2][1]) # <<>>
        ELSE FALSE

----------------------------------------------------------------------------
(* Yamaka detectors                                                        *)

padaanta_yamaka(s) ==
    LET pads == get_padas(s)
    IN  /\ Len(pads) = 4
        /\ Cardinality({pads[k][Len(pads[k])] : k \in 1..Len(pads)}) = 1

padadi_yamaka(s) ==
    LET pads == get_padas(s)
    IN  /\ Len(pads) = 4
        /\ Cardinality({pads[k][1] : k \in 1..Len(pads)}) = 1

samudga_yamaka(s) == Slice(s, 0, HalfLen) = Slice(s, HalfLen, SlokaLen)

vikranta_yamaka_first_pair(s) ==
    LET pads == get_padas(s)
    IN  Len(pads) = 4 /\ pads[1] = pads[3]

vikranta_yamaka(s) ==
    LET pads == get_padas(s)
    IN  Len(pads) = 4 /\ pads[1] = pads[3] /\ pads[2] = pads[4]

cakravala_yamaka(s) ==
    LET pads == get_padas(s)
    IN  /\ Len(pads) = 4
        /\ \A i \in 1..3 : pads[i][Len(pads[i])] = pads[i + 1][1]

sandasta_yamaka(s) ==
    LET pads == get_padas(s)
    IN  /\ Len(pads) = 4
        /\ Cardinality({Slice(pads[k], 0, 2) : k \in 1..Len(pads)}) = 1

amredita_yamaka(s) ==
    LET pads == get_padas(s)
    IN  /\ Len(pads) = 4
        /\ Cardinality({Tail_(pads[k], 2) : k \in 1..Len(pads)}) = 1

caturvyavasita_yamaka(s) ==
    LET pads == get_padas(s)
    IN  /\ Len(pads) = 4
        /\ \A k \in 1..Len(pads) : pads[k] = pads[1]

\* re.match('([^V]+)([V]+)', syl): the groups (c, v), <<>> if no match
OnsetNucleus(syl) ==
    LET v == SkipNonVowels(syl, 1)
        n == SkipVowels(syl, v)
    IN  IF v > 1 /\ n > v
        THEN <<SubSeq(syl, 1, v - 1), SubSeq(syl, v, n - 1)>>
        ELSE <<>>

malayamaka(s) ==
    LET groups == {OnsetNucleus(s[i]) : i \in 1..Len(s)} \ {<<>>}
        bucket(c) == {g[2] : g \in {h \in groups : h[1] = c}}
    IN  \E g \in groups : Cardinality(bucket(g[1])) > 1

----------------------------------------------------------------------------
(* Inputs of the text area.                                                *)

\* longest text typed codepoint by codepoint
MaxTextLen == 4
\* longest verse in text units
MaxUnits == 33

Alphabet == {"a", "i", "k", "t", "r", "h", "M", " ", "1", "-"}

ShortTexts == UNION {[1..n -> Alphabet] : n \in 0..MaxTextLen}

\* text units of the verses
Units == [kat |-> <<"k", "a", "t">>, tak |-> <<"t", "a", "k">>,
          ak |-> <<"a", "k">>, kha |-> <<"k", "h", "a">>,
          kit |-> <<"k", "i", "t">>]

Uniform(u) == [j \in 1..PadaLen |-> u]

\* the padas a verse is written from
PadaTexts == {Uniform(Units.kat), Uniform(Units.tak), Uniform(Units.ak),
              Uniform(Units.kha),
              [Uniform(Units.kat) EXCEPT ![PadaLen] = Units.tak],
              [Uniform(Units.kat) EXCEPT ![1] = Units.tak],
              [Uniform(Units.kat) EXCEPT ![5] = Units.kit]}

\* the first n units of the padas f[1] f[2] f[3] f[4] f[1] ..., one pada a line
VerseText(f, n) ==
    Concat([j \in 1..n |->
              LET u == f[(((j - 1) \div PadaLen) % NumPadas) + 1][((j - 1) % PadaLen) + 1]
              IN  IF j > 1 /\ (j - 1) % PadaLen = 0 THEN <<" ">> \o u ELSE u])

VerseTexts == {VerseText(f, n) : f \in [1..NumPadas -> PadaTexts], n \in 0..MaxUnits}

Texts == ShortTexts \cup VerseTexts

----------------------------------------------------------------------------
(* The main block.                                                         *)

AnuprasaNames == {"lata", "cheka", "vrtty", "antya_pada", "antya_sloka", "srtya_dantya"}
YamakaNames == {"padaanta", "padadi", "samudga", "vikranta", "cakravala",
                "sandasta", "padadi2", "amredita", "caturvyavasita", "malayamaka"}

Init ==
    /\ text \in Texts
    /\ pc = "input"
    /\ txt = <<>>
    /\ sylls = <<>>
    /\ anups = [k \in AnuprasaNames |-> FALSE]
    /\ yams = [k \in YamakaNames |-> FALSE]
    /\ metre = [vipula |-> "", anushtubh |-> ""]
    /\ gurus = <<>>

\* lines 179-182: if text: txt = normalize_iast(text); sylls = split_syllables(txt)
Syllabify ==
    /\ pc = "input"
    /\ text # <<>>
    /\ txt' = normalize_iast(text)
    /\ sylls' = split_syllables(txt')
    /\ pc' = "split"
    /\ UNCHANGED <<text, anups, yams, metre, gurus>>

\* lines 185-204: the detectors; the metre utilities of lines 78-93 on the
\* same syllable list
Detect ==
    /\ pc = "split"
    /\ anups' = [lata         |-> detect_lata(sylls),
                 cheka        |-> detect_cheka(sylls),
                 vrtty        |-> detect_vrtty(sylls),
                 antya_pada   |-> detect_antya_pada(sylls),
                 antya_sloka  |-> detect_antya_sloka(sylls),
                 srtya_dantya |-> detect_srtya_dantya(sylls)]
    /\ yams' = [padaanta       |-> padaanta_yamaka(sylls),
                padadi         |-> padadi_yamaka(sylls),
                samudga        |-> samudga_yamaka(sylls),
                vikranta       |-> vikranta_yamaka(sylls),
                cakravala      |-> cakravala_yamaka(sylls),
                sandasta       |-> sandasta_yamaka(sylls),
                padadi2        |-> padadi_yamaka(sylls),
                amredita       |-> amredita_yamaka(sylls),
                caturvyavasita |-> caturvyavasita_yamaka(sylls),
                malayamaka     |-> malayamaka(sylls)]
    /\ metre' = [vipula    |-> identify_vipula(Slice(sylls, 0, HalfLen)),
                 anushtubh |-> classify_anushtubh(sylls)]
    /\ pc' = "detected"
    /\ UNCHANGED <<text, txt, sylls, gurus>>

\* lines 207-216: the guru / laghu grid, cell idx = i*8+j
Draw ==
    /\ pc = "detected"
    /\ gurus' = [idx \in 1..(GridSide * GridSide) |->
                   is_guru(IF idx <= Len(sylls) THEN sylls[idx] ELSE <<>>)]
    /\ pc' = "done"
    /\ UNCHANGED <<text, txt, sylls, anups, yams, metre>>

Next == Syllabify \/ Detect \/ Draw

Spec == Init /\ [][Next]_vars

----------------------------------------------------------------------------
(* Vocabulary of the properties.                                           *)

\* the phoneme stream: the text without whitespace
Stream == RemoveAll(text, SpaceChars)

\* the text is made only of vowels, markers, consonants and whitespace
ValidStream ==
    Range(text) \subseteq (VowelChars \cup MarkerChars \cup CodaChars \cup SpaceChars)

\* the script has syllabified the text
Syllabified == pc # "input"

\* the stream offsets at which a syllable of ss ends, 0 included, as long
\* as the syllables spell the stream st from offset off
RECURSIVE Offsets(_, _, _)
Offsets(ss, st, off) ==
    IF ss # <<>> /\ SubSeq(st, off + 1, off + Len(Head(ss))) = Head(ss)
    THEN {off} \cup Offsets(Tail(ss), st, off + Len(Head(ss)))
    ELSE {off}

\* the offsets after which a syllable ends
Boundaries == Offsets(sylls, Stream, 0)

\* position i of st ends a nucleus: a vowel, or the marker that follows a
\* vowel
NucleusEndAt(st, i) ==
    \/ st[i] \in VowelChars
    \/ st[i] \in MarkerChars /\ i > 1 /\ st[i - 1] \in VowelChars

\* length of the run of non-vowels that follows position i of st
RunAfter(st, i) == SkipNonVowels(st, i + 1) - (i + 1)

\* a consonant cluster of length L stands between the vowel at i and the
\* next vowel of st
ClusterAt(st, i, L) ==
    /\ st[i] \in VowelChars
    /\ L = RunAfter(st, i)
    /\ L >= 1
    /\ i + L + 1 <= Len(st)
    /\ \A j \in (i + 1)..(i + L) : st[j] \in CodaChars

InseparableClusters ==
    {<<"t", "r">>, <<"k", "S">>, <<"k", "S", "N">>, <<"j", "J">>}

\* the aspirated stops, which IAST writes with two letters
AspirateFirst == {"k", "g", "c", "j", "T", "D", "t", "d", "p", "b"}

\* st has a vowel
HasVowel(st) == \E i \in 1..Len(st) : st[i] \in VowelChars

\* the run of non-vowels that ends st
TrailingRun(st) == SubSeq(st, SuffixStart(st, Len(st)), Len(st))

\* the parts of a syllable: onset, nucleus, marker, coda
Parts(syl) ==
    LET v == SkipNonVowels(syl, 1)
        n == SkipVowels(syl, v)
        m == IF n <= Len(syl) /\ syl[n] \in MarkerChars THEN n + 1 ELSE n
    IN  [onset   |-> SubSeq(syl, 1, v - 1),
         nucleus |-> SubSeq(syl, v, n - 1),
         marker  |-> SubSeq(syl, n, m - 1),
         coda    |-> SubSeq(syl, m, Len(syl))]

ShortNuclei == {<<"a">>, <<"i">>, <<"u">>, <<"R">>}
LongNuclei == {<<"aa">>, <<"ii">>, <<"uu">>, <<"RR">>, <<"e">>, <<"o">>,
               <<"a", "i">>, <<"a", "u">>}

WellFormed(syl) ==
    /\ Range(Parts(syl).onset) \subseteq CodaChars
    /\ Parts(syl).nucleus \in ShortNuclei \cup LongNuclei
    /\ Range(Parts(syl).coda) \subseteq CodaChars

Heavy(syl) ==
    \/ Parts(syl).nucleus \in LongNuclei
    \/ Parts(syl).marker # <<>>
    \/ Parts(syl).coda # <<>>

\* the eight yamaka detectors that need a full verse
FullVerseYamakas == {"padaanta", "padadi", "samudga", "vikranta", "cakravala",
                     "sandasta", "amredita", "caturvyavasita"}

----------------------------------------------------------------------------
(* Properties.                                                             *)

\* C1 (partition invariant): for every text made only of vowels, markers,
\* consonants and whitespace, the syllables of split_syllables concatenated
\* in order are the text without its whitespace.  Stated for the texts that
\* have a vowel: a text without one has no syllable at all.
C1_Partition ==
    (/\ Syllabified
     /\ ValidStream
     /\ HasVowel(Stream))
    => Concat(sylls) = Stream

\* C2 (open-syllable rule): a single consonant between a nucleus (with its
\* optional marker) and a vowel starts the following syllable; the syllable
\* before it ends with its nucleus or marker.
C2_OpenSyllable ==
    (Syllabified /\ ValidStream) =>
        LET st == Stream
            B == Boundaries
        IN  \A i \in 1..Len(st) :
                (/\ i + 2 <= Len(st)
                 /\ NucleusEndAt(st, i)
                 /\ st[i + 1] \in CodaChars
                 /\ st[i + 2] \in VowelChars)
                => (i \in B /\ i + 1 \notin B)

\* C3 (cluster splitting): a cluster of L >= 2 consonants between two vowels
\* that is not inseparable is split after its first consonant and nowhere
\* else, whatever its consonants, a second consonant h included.  Stated
\* for the clusters that do not open with an aspirated stop written
\* stop + h (kh, gh, ...), which IAST reads as one consonant.
C3_ClusterSplit ==
    (Syllabified /\ ValidStream) =>
        LET st == Stream
            B == Boundaries
        IN  \A i \in 1..Len(st) :
                LET L == RunAfter(st, i)
                IN  (/\ ClusterAt(st, i, L)
                     /\ L >= 2
                     /\ SubSeq(st, i + 1, i + L) \notin InseparableClusters
                     /\ ~(st[i + 1] \in AspirateFirst /\ st[i + 2] = "h"))
                    => /\ i + 1 \in B
                       /\ \A j \in i..(i + L) : j # i + 1 => j \notin B

\* C4 (whitelist exception): an inseparable cluster (tr, kS, kSN, jJ) between
\* two vowels stays whole in the coda of the current syllable: the syllable
\* ends after the cluster and nowhere inside it.
C4_Whitelist ==
    (Syllabified /\ ValidStream) =>
        LET st == Stream
            B == Boundaries
        IN  \A i \in 1..Len(st) :
                LET L == RunAfter(st, i)
                IN  (/\ ClusterAt(st, i, L)
                     /\ SubSeq(st, i + 1, i + L) \in InseparableClusters)
                    => /\ i + L \in B
                       /\ \A j \in i..(i + L - 1) : j \notin B

\* C5 (end-of-stream attachment): when the text has a vowel and ends in a run
\* of consonants, the whole run ends the last syllable, and every syllable
\* has a vowel.
C5_EndOfStream ==
    LET run == TrailingRun(Stream)
        last == sylls[Len(sylls)]
    IN  (/\ Syllabified
         /\ ValidStream
         /\ HasVowel(Stream)
         /\ run # <<>>
         /\ Range(run) \subseteq CodaChars)
        => /\ sylls # <<>>
           /\ Len(last) > Len(run)
           /\ Tail_(last, Len(run)) = run
           /\ \A k \in 1..Len(sylls) : HasVowel(sylls[k])

\* C6 (weight): a syllable of onset, one nucleus, optional marker and coda is
\* guru exactly when its nucleus is long or a diphthong, or it has a marker,
\* or its coda is not empty.
C6_Weight ==
    pc = "done" =>
        \A k \in 1..Len(sylls) :
            (k <= GridSide * GridSide /\ WellFormed(sylls[k]))
            => (gurus[k] <=> Heavy(sylls[k]))

\* C7 (partial-block rejection): with fewer than 32 syllables, the empty
\* sequence included, classify_anushtubh and the eight full-verse yamaka
\* detectors report no match.
C7_PartialBlock ==
    (pc = "done" /\ Len(sylls) < SlokaLen) =>
        /\ metre.anushtubh = ""
        /\ \A y \in FullVerseYamakas : ~yams[y]

\* C8 (empty clusters are never shared): an anuprasa detector that reports a
\* shared onset or coda cluster reports a cluster that is not empty.
C8_EmptyNeverShared ==
    pc = "done" =>
        /\ anups.lata => get_initial(sylls[1]) # <<>>
        /\ anups.cheka => get_initial(sylls[1]) # <<>>
        /\ anups.vrtty =>
              \E i \in 1..Min(HalfLen, Len(sylls)) : get_initial(sylls[i]) # <<>>
        /\ anups.antya_pada =>
              LET pads == get_padas(sylls)
              IN  \E k \in 1..Len(pads) :
                      /\ get_final(pads[k][1]) # <<>>
                      /\ \A i \in 1..PadaLen :
                             get_final(pads[k][i]) = get_final(pads[k][1])
        /\ anups.antya_sloka => get_final(sylls[1]) # <<>>
        /\ anups.srtya_dantya => get_final(sylls[PadaLen]) # <<>>

\* C9 (lata covers the verse): on 32 syllables detect_lata is true only if
\* all 32 syllables have the same onset cluster.
C9_LataWholeVerse ==
    (pc = "done" /\ Len(sylls) = SlokaLen /\ anups.lata) =>
        \A i \in 1..SlokaLen : get_initial(sylls[i]) = get_initial(sylls[1])

\* C10 (samudga and vikranta agree): on every non-empty syllable sequence
\* samudga_yamaka and vikranta_yamaka return the same boolean.
C10_SamudgaIsVikranta ==
    (pc = "done" /\ sylls # <<>>) => (yams.samudga <=> yams.vikranta)

\* C10 case: a verse of 32 or more syllables, of two different padas, that
\* both detectors report
C10_Witness ==
    /\ pc = "done"
    /\ Len(sylls) > SlokaLen
    /\ sylls[1] # sylls[PadaLen + 1]
    /\ yams.samudga
    /\ yams.vikranta

====
